---------------------------- MODULE Spec2Model ----------------------------
(***************************************************************************)
(* Model of KleinKramers2d::Evolve (QTR), the truncated-grid RK4 solver of *)
(* the two-dimensional Klein-Kramers equation.                             *)
(*                                                                         *)
(* Fields are arrays over the linear index i1*W1+i2, exactly as in the     *)
(* source.  A double is modelled in fixed point: the integer v stands for  *)
(* v/SCALE, and the three IEEE-754 special values are the tokens PInf,     *)
(* NInf and NaN with their IEEE arithmetic and comparison rules.  exp and  *)
(* sqrt are evaluated to the same fixed-point resolution.                  *)
(*                                                                         *)
(* Evolve() is one long function; the variable pc is its position, one     *)
(* value per block of loops between two global barriers.                   *)
(***************************************************************************)
EXTENDS Integers, Sequences, FiniteSets, TLC

(***************************************************************************)
(* Bounds of the model.                                                    *)
(***************************************************************************)
MaxSteps   == 2      \* number of time steps (int)(TIME/kk) explored
MaxExLimit == 2      \* largest ExLimit explored

(***************************************************************************)
(* Program parameters fixed for the model.                                 *)
(***************************************************************************)
NX   == 9            \* BoxShape[0]
NP   == 9            \* BoxShape[1]
EDGE == 2
H0   == 1            \* H[0]
H1   == 1            \* H[1]
Box0 == -4           \* Box[0]
Box2 == -4           \* Box[2]
m    == 1
kb   == 1
temp == 1000         \* bath temperature 1.0
gamma == 1
KK_NUM == 1          \* kk = KK_NUM / KK_DEN
KK_DEN == 2
PIHB_INV == 318      \* 1/(PI*hb) = 0.318
INV2PI == 159155     \* 1000000/(2*PI)

SCALE == 1000        \* fixed-point image of 1.0
PInf  == 1000000000  \* +infinity
NInf  == -1000000000 \* -infinity
NaN   == 2000000000  \* not-a-number
BIG_NUMBER == 2147483647

W1 == NP
M1 == NP
O1 == NX * NP
Cells == 0 .. (O1 - 1)
Rows  == 0 .. (NX - 1)

(***************************************************************************)
(* IEEE-754 layer.                                                         *)
(***************************************************************************)
IsNaN(x)  == x = NaN
IsInf(x)  == x = PInf \/ x = NInf
Finite(x) == ~IsNaN(x) /\ ~IsInf(x)

fLt(a, b) == ~IsNaN(a) /\ ~IsNaN(b) /\ a < b
fLe(a, b) == ~IsNaN(a) /\ ~IsNaN(b) /\ a <= b
fGe(a, b) == ~IsNaN(a) /\ ~IsNaN(b) /\ a >= b
fGt(a, b) == ~IsNaN(a) /\ ~IsNaN(b) /\ a > b
fEq(a, b) == ~IsNaN(a) /\ ~IsNaN(b) /\ a = b
fNe(a, b) == ~fEq(a, b)

Abs(n) == IF n < 0 THEN -n ELSE n
fAbs(x) == IF IsNaN(x) THEN NaN ELSE IF IsInf(x) THEN PInf ELSE Abs(x)

\* rounding of an exact quotient to the fixed-point grid (toward zero)
Quot(n, d) == IF n >= 0 THEN n \div d ELSE -((-n) \div d)

RECURSIVE SumTerms(_)
SumTerms(ts) == IF ts = << >> THEN 0
                ELSE Head(ts)[1] * Head(ts)[2] + SumTerms(Tail(ts))

\* (c1*v1 + c2*v2 + ...) / den for finite coefficients c and doubles v
LinCombV(ts, den) ==
    LET D   == DOMAIN ts
        nan == \E k \in D : IsNaN(ts[k][2]) \/ (IsInf(ts[k][2]) /\ ts[k][1] = 0)
        pos == \E k \in D : \/ ts[k][2] = PInf /\ ts[k][1] > 0
                            \/ ts[k][2] = NInf /\ ts[k][1] < 0
        neg == \E k \in D : \/ ts[k][2] = PInf /\ ts[k][1] < 0
                            \/ ts[k][2] = NInf /\ ts[k][1] > 0
    IN  IF nan \/ (pos /\ neg) THEN NaN
        ELSE IF pos THEN PInf
        ELSE IF neg THEN NInf
        ELSE Quot(SumTerms(ts), den)

\* the same with the terms evaluated once
LinComb(ts, den) == CHOOSE r \in { LinCombV(t, den) : t \in {ts} } : TRUE

fAdd(a, b) == LinComb(<< <<1, a>>, <<1, b>> >>, 1)
fSub(a, b) == LinComb(<< <<1, a>>, <<-1, b>> >>, 1)

RECURSIVE SumSet(_, _, _)
SumSet(S, w, v) == IF S = {} THEN 0
                   ELSE LET k == CHOOSE x \in S : TRUE
                        IN  w[k] * v[k] + SumSet(S \ {k}, w, v)

\* sum over k in S of w[k]*v[k], divided by den: w finite weights, v doubles
WSum(S, w, v, den) ==
    LET nan == \E k \in S : IsNaN(v[k]) \/ (IsInf(v[k]) /\ w[k] = 0)
        pos == \E k \in S : \/ v[k] = PInf /\ w[k] > 0
                            \/ v[k] = NInf /\ w[k] < 0
        neg == \E k \in S : \/ v[k] = PInf /\ w[k] < 0
                            \/ v[k] = NInf /\ w[k] > 0
    IN  IF nan \/ (pos /\ neg) THEN NaN
        ELSE IF pos THEN PInf
        ELSE IF neg THEN NInf
        ELSE Quot(SumSet(S, w, v), den)

\* 1000*exp(-q/10), q >= 0 in tenths
ExpTab == << 1000, 905, 819, 741, 670, 607, 549, 497, 449, 407,
             368, 333, 301, 273, 247, 223, 202, 183, 165, 150,
             135, 122, 111, 100, 91, 82, 74, 67, 61, 55,
             50, 45, 41, 37, 33, 30, 27, 25, 22, 20,
             18, 17, 15, 14, 12, 11, 10, 9, 8, 7,
             7, 6, 6, 5, 5, 4, 4, 3, 3, 3,
             2, 2, 2, 2, 2, 2, 1, 1, 1, 1,
             1, 1, 1, 1, 1, 1 >>
ExpMilli(q) == IF q >= Len(ExpTab) THEN 0 ELSE ExpTab[q + 1]

(***************************************************************************)
(* Grid and index.                                                         *)
(***************************************************************************)
GridToIdx(x1, x2) == x1 * M1 + x2
G1(idx) == idx \div M1
G2(idx) == idx % M1
XX1(i1) == Box0 + i1 * H0
XX2(i2) == Box2 + i2 * H1
\* the interior with the loops started one cell too early
Interior_wide == { c \in Cells : /\ G1(c) >= EDGE - 1 /\ G1(c) < NX - EDGE
                                 /\ G2(c) >= EDGE - 1 /\ G2(c) < NP - EDGE }

Interior == { c \in Cells : /\ G1(c) >= EDGE /\ G1(c) < NX - EDGE
                            /\ G2(c) >= EDGE /\ G2(c) < NP - EDGE }

VARIABLES
    pc, tt,
    \* parameters read by init()
    isFullGrid, TolH, TolL, TolHd, TolLd, ExLimit, ExReduce,
    isIsothermal, isLinearizedCollision, NSteps, A, Wave0, Box1, Box3,
    \* fields
    F, FF, PF, Feq_loc, KK1, KK2, KK3, KK4, TAMask,
    Density, Velocity, Temperature,
    \* truncated area
    ta_size, x1_min, x1_max, x2_min, x2_max,
    TB, TBL, TBL_P, ExFF, Check, ExTBL, ExBD,
    Excount, isExtrapolate, isFirstExtrp,
    norm,
    \* auxiliary: passes of the while loop of line 1003 in the current step
    passes,
    \* auxiliary: for each cell, the iterations of the last data-parallel
    \* mask-writing loop that wrote it
    maskWrites,
    \* auxiliary: the RK4 passes completed in the current step, whole the
    \* number of passes over the whole update region and written the cells
    \* whose FF a pass has written
    rkLog,
    \* the buffers of the full-grid run started from the same parameters
    F_fg, Feq_fg, KK1_fg, KK2_fg, KK3_fg, KK4_fg, norm_fg

parVars  == << isFullGrid, TolH, TolL, TolHd, TolLd, ExLimit, ExReduce,
               isIsothermal, isLinearizedCollision, NSteps, A, Wave0,
               Box1, Box3 >>
rkVars   == << KK1, KK2, KK3, KK4 >>
momVars  == << Density, Velocity, Temperature >>
boxVars  == << ta_size, x1_min, x1_max, x2_min, x2_max >>
exVars   == << TBL, TBL_P, ExFF, Check, ExTBL, ExBD, Excount,
               isExtrapolate, isFirstExtrp, passes >>
fgVars   == << F_fg, Feq_fg, KK1_fg, KK2_fg, KK3_fg, KK4_fg, norm_fg >>
vars == << pc, tt, parVars, F, FF, PF, Feq_loc, rkVars, TAMask, momVars,
           boxVars, TB, exVars, norm, maskWrites, rkLog, fgVars >>

ZeroField == [c \in Cells |-> 0]

(***************************************************************************)
(* More IEEE helpers.                                                      *)
(***************************************************************************)
Sgn(n) == IF n > 0 THEN 1 ELSE IF n < 0 THEN -1 ELSE 0
QuotS(n, d) == Quot(n * Sgn(d), Abs(d))

\* a / b, the finite result expressed with scale factor sc
fDivTo(a, b, sc) ==
    IF IsNaN(a) \/ IsNaN(b) THEN NaN
    ELSE IF IsInf(a) /\ IsInf(b) THEN NaN
    ELSE IF IsInf(a) THEN (IF b >= 0 THEN a ELSE -a)
    ELSE IF IsInf(b) THEN 0
    ELSE IF b = 0 THEN (IF a = 0 THEN NaN ELSE IF a > 0 THEN PInf ELSE NInf)
    ELSE QuotS(a * sc, b)

\* norm * v where norm = 1.0 / Z
NormMul(Z, v) ==
    IF IsNaN(Z) \/ IsNaN(v) THEN NaN
    ELSE IF Z = 0 THEN (IF v = 0 THEN NaN ELSE IF v > 0 THEN PInf ELSE NInf)
    ELSE IF IsInf(Z) THEN (IF IsInf(v) THEN NaN ELSE 0)
    ELSE IF IsInf(v) THEN (IF Z > 0 THEN v ELSE -v)
    ELSE QuotS(v * SCALE, Z)

RECURSIVE ISqrtB(_, _, _)
ISqrtB(n, lo, hi) ==
    IF lo >= hi THEN lo
    ELSE LET mid == (lo + hi + 1) \div 2
         IN  IF mid * mid <= n THEN ISqrtB(n, mid, hi) ELSE ISqrtB(n, lo, mid - 1)
ISqrt(n) == ISqrtB(n, 0, 46340)

\* the differences not divided by the distance nx*H
GradSq_nodiv(d1, nx1, d2, nx2) ==
    LET u1 == IF nx1 = 0 THEN 0 ELSE d1
        u2 == IF nx2 = 0 THEN 0 ELSE d2
    IN  IF IsNaN(u1) \/ IsNaN(u2) THEN [k |-> "nan", num |-> 0, den |-> 1]
        ELSE IF IsInf(u1) \/ IsInf(u2) THEN [k |-> "inf", num |-> 0, den |-> 1]
        ELSE [k |-> "fin", num |-> u1 * u1 + u2 * u2, den |-> 1]

\* the test  pow(|d1|/(nx1*H[0]),2) + pow(|d2|/(nx2*H[1]),2)  against a
\* squared tolerance; a direction with nx == 0 contributes 0.0
GradSq(d1, nx1, d2, nx2) ==
    LET u1 == IF nx1 = 0 THEN 0 ELSE d1
        u2 == IF nx2 = 0 THEN 0 ELSE d2
        q1 == IF nx1 = 0 THEN 1 ELSE (nx1 * H0) * (nx1 * H0)
        q2 == IF nx2 = 0 THEN 1 ELSE (nx2 * H1) * (nx2 * H1)
    IN  IF IsNaN(u1) \/ IsNaN(u2) THEN [k |-> "nan", num |-> 0, den |-> 1]
        ELSE IF IsInf(u1) \/ IsInf(u2) THEN [k |-> "inf", num |-> 0, den |-> 1]
        ELSE [k |-> "fin", num |-> u1 * u1 * q2 + u2 * u2 * q1, den |-> q1 * q2]
GradLt(g, tolsq) == g.k = "fin" /\ g.num < tolsq * g.den
GradGe(g, tolsq) == g.k = "inf" \/ (g.k = "fin" /\ g.num >= tolsq * g.den)

(***************************************************************************)
(* Potential provider (default build: DoubleWell-2).                       *)
(***************************************************************************)
\* Wavefunction_DW2: PIHB_INV * exp(-2*A[0]*(x1-Wave0[0])^2)
\*                            * exp(-0.5*HBSQ_INV*(x2-Wave0[1])^2/A[1])
\* a[1], a[2] are the two exponents' coefficients in tenths
Wavefunction_DW2(x1, x2, a, w0) ==
    LET e1 == ExpMilli(a[1] * (x1 - w0[1]) * (x1 - w0[1]))
        e2 == ExpMilli(a[2] * (x2 - w0[2]) * (x2 - w0[2]))
    IN  Quot(PIHB_INV * Quot(e1 * e2, 1000), 1000)
Vx_DW2(x1, x2) == 0
POTENTIAL_X(x1, x2) == Vx_DW2(x1, x2)

(***************************************************************************)
(* Moment engine.                                                          *)
(***************************************************************************)
\* density, drift velocity and local temperature of one row; S is the set
\* of cells of the row that enter the sums
MomentsRow(S, Fld, lin, iso) ==
    LET density == WSum(S, [c \in S |-> H1], Fld, 1)
    IN  IF fLe(density, 0)
        THEN [density |-> 0, velocity |-> 0, temp |-> 0]
        ELSE IF lin
        THEN [density |-> density, velocity |-> 0, temp |-> temp]
        ELSE IF ~Finite(density)
        THEN [density |-> density, velocity |-> NaN,
              temp |-> IF iso THEN temp ELSE NaN]
        ELSE LET s1 == WSum(S, [c \in S |-> XX2(G2(c)) * H1], Fld, 1)
                 um == fDivTo(s1, m * density, 1000)
                 w2 == [c \in S |->
                          Quot((1000 * XX2(G2(c)) - m * um)
                               * (1000 * XX2(G2(c)) - m * um), 1000) * H1]
                 s2 == WSum(S, w2, Fld, 1)
             IN  [density |-> density, velocity |-> um,
                  temp |-> IF iso THEN temp
                           ELSE fDivTo(s2, m * kb * density, 1)]

\* the local Maxwellian with the guard  feq > 1/(H0*H1) || !isfinite(feq)
FeqVal(density, um, Tm, i2) ==
    IF ~Finite(density) \/ ~Finite(um) \/ ~Finite(Tm) THEN 0
    ELSE IF Tm <= 0 THEN 0
    ELSE LET coef == ISqrt(Quot(INV2PI * 1000, m * kb * Tm))
             dm   == 1000 * XX2(i2) - m * um
             e    == ExpMilli(Quot(dm * dm, 200 * m * kb * Tm))
             feq  == Quot(Quot(density * coef, 1000) * e, 1000)
         IN  IF feq * H0 * H1 > SCALE THEN 0 ELSE feq

RowCells(i1) == { c \in Cells : G1(c) = i1 }
InBox(c) == /\ G1(c) >= x1_min /\ G1(c) <= x1_max
            /\ G2(c) >= x2_min /\ G2(c) <= x2_max
LiveInBox == { c \in Cells : InBox(c) /\ TAMask[c] }
BoxRows == { i \in Rows : i >= x1_min /\ i <= x1_max }

(***************************************************************************)
(* Parameters.                                                             *)
(***************************************************************************)
\* <<TolH, TolL, TolHd, TolLd>>
TolSets == { <<0, 0, 0, 0>>, <<5, 40, 5, 40>>, <<5000, 5000, 5000, 5000>>,
             <<700, 5000, 5000, 5000>>, <<-5, 40, 5, 40>> }
ASets   == { <<3, 3>>, <<10, 10>>, <<40, 40>> }
W0Sets  == { <<0, 0>>, <<1, -1>> }
\* <<Box[1], Box[3]>>, the upper ends of the domain in tenths
BoxEnds == { <<40, 40>>, <<43, 44>> }

\* std::round of n/d for n >= 0, d > 0
Round(n, d) == (2 * n + d) \div (2 * d)
\* line 151: BoxShape[i] = (int)std::round((Box[2i+1] - Box[2i]) / H[i]) + 1,
\* hi in tenths
BoxShape(lo, hi, h) == Round(hi - 10 * lo, 10 * h) + 1

\* the configurations the specification rejects
BadConfig ==
    \/ TolH < 0
    \/ ExLimit < 0
    \/ (Box1 - 10 * Box0) % (10 * H0) /= 0
    \/ (Box3 - 10 * Box2) % (10 * H1) /= 0

Init ==
    /\ pc = "init"
    /\ tt = 0
    /\ isFullGrid \in BOOLEAN
    /\ \E t \in TolSets : /\ TolH = t[1] /\ TolL = t[2]
                          /\ TolHd = t[3] /\ TolLd = t[4]
    /\ ExLimit \in -1 .. MaxExLimit
    /\ ExReduce = 1
    /\ \E md \in {"lin", "iso", "full"} :
          /\ isLinearizedCollision = (md = "lin")
          /\ isIsothermal = (md = "iso")
    /\ NSteps = MaxSteps
    /\ A \in ASets
    /\ Wave0 \in W0Sets
    /\ \E b \in BoxEnds : /\ Box1 = b[1] /\ Box3 = b[2]
                          /\ BoxShape(Box0, b[1], H0) = NX
                          /\ BoxShape(Box2, b[2], H1) = NP
    \* the rejected configurations are explored with one wavefunction
    /\ BadConfig => /\ A = <<10, 10>> /\ Wave0 = <<1, -1>>
                    /\ isLinearizedCollision /\ ~isFullGrid
    /\ F = ZeroField /\ FF = ZeroField /\ PF = ZeroField
    /\ Feq_loc = ZeroField
    /\ KK1 = ZeroField /\ KK2 = ZeroField /\ KK3 = ZeroField /\ KK4 = ZeroField
    /\ TAMask = [c \in Cells |-> FALSE]
    /\ Density = [i \in Rows |-> 0]
    /\ Velocity = [i \in Rows |-> 0]
    /\ Temperature = [i \in Rows |-> 0]
    /\ ta_size = 0
    /\ x1_min = BIG_NUMBER /\ x2_min = BIG_NUMBER
    /\ x1_max = -BIG_NUMBER /\ x2_max = -BIG_NUMBER
    /\ TB = {} /\ TBL = {} /\ TBL_P = {} /\ ExFF = {} /\ ExBD = {}
    /\ Check = << >> /\ ExTBL = << >>
    /\ Excount = 0 /\ isExtrapolate = FALSE /\ isFirstExtrp = TRUE
    /\ norm = 0
    /\ passes = 0
    /\ maskWrites = ZeroField
    /\ rkLog = [whole |-> 0, written |-> {}]
    /\ F_fg = ZeroField /\ Feq_fg = ZeroField /\ norm_fg = 0
    /\ KK1_fg = ZeroField /\ KK2_fg = ZeroField
    /\ KK3_fg = ZeroField /\ KK4_fg = ZeroField

\* lines 424-450: initial wavefunction and its normalization
InitWavefunction ==
    /\ UNCHANGED << maskWrites, rkLog >>
    /\ pc = "init"
    /\ LET W  == [c \in Cells |->
                    IF c \in Interior
                    THEN Wavefunction_DW2(XX1(G1(c)), XX2(G2(c)), A, Wave0)
                    ELSE 0]
           Z  == WSum(Interior, [c \in Interior |-> H0 * H1], W, 1)
           Fn == [c \in Cells |-> IF c \in Interior THEN NormMul(Z, W[c]) ELSE 0]
       IN  /\ F' = Fn
           /\ PF' = Fn
           /\ norm' = Z
           /\ F_fg' = Fn
    /\ UNCHANGED << Feq_fg, KK1_fg, KK2_fg, KK3_fg, KK4_fg, norm_fg >>
    /\ pc' = IF isFullGrid THEN "moments0" ELSE "truncate"
    /\ UNCHANGED << tt, parVars, FF, Feq_loc, rkVars, TAMask, momVars,
                    boxVars, TB, exVars >>

(***************************************************************************)
(* Active-region mask.                                                     *)
(***************************************************************************)
SetMin(S) == CHOOSE x \in S : \A y \in S : x <= y
SetMax(S) == CHOOSE x \in S : \A y \in S : x >= y
\* the minimum never updated
MinOf_keep(a, S) == a

MinOf(a, S) == IF S = {} THEN a ELSE IF SetMin(S) < a THEN SetMin(S) ELSE a
\* the maximum never updated
MaxOf_keep(a, S) == a

MaxOf(a, S) == IF S = {} THEN a ELSE IF SetMax(S) > a THEN SetMax(S) ELSE a

\* the rectangle without its last row and column
Rect_open(lo1, hi1, lo2, hi2) ==
    { c \in Cells : G1(c) >= lo1 /\ G1(c) < hi1 /\ G2(c) >= lo2 /\ G2(c) < hi2 }

\* cells of the rectangle [lo1,hi1] x [lo2,hi2]
Rect(lo1, hi1, lo2, hi2) ==
    { c \in Cells : G1(c) >= lo1 /\ G1(c) <= hi1 /\ G2(c) >= lo2 /\ G2(c) <= hi2 }

\* the boundary test with the two momentum neighbours left out
BoundaryOf_rows(mask, R) ==
    { c \in R : mask[c] /\ (~mask[c + W1] \/ ~mask[c - W1]) }

\* live cells of a rectangle with a non-live 4-neighbour (the TB loops)
BoundaryOf(mask, R) ==
    { c \in R : /\ mask[c]
                /\ \/ ~mask[c + W1] \/ ~mask[c - W1]
                   \/ ~mask[c + 1]  \/ ~mask[c - 1] }

\* the ring without the two momentum neighbours
RingOf_rows(seeds, mask) ==
    UNION { {n \in { (G1(c) + 1) * W1 + G2(c), (G1(c) - 1) * W1 + G2(c) } :
               /\ ~mask[n]
               /\ (n = (G1(c) + 1) * W1 + G2(c)) => (G1(c) + 1 < NX - EDGE - 1)
               /\ (n = (G1(c) - 1) * W1 + G2(c)) => (G1(c) - 1 > EDGE) }
            : c \in seeds }

\* the ring with every bound one cell too wide
RingOf_wide(seeds, mask) ==
    UNION { {n \in { (G1(c) + 1) * W1 + G2(c), (G1(c) - 1) * W1 + G2(c),
                     G1(c) * W1 + (G2(c) + 1), G1(c) * W1 + (G2(c) - 1) } :
               /\ ~mask[n]
               /\ (n = (G1(c) + 1) * W1 + G2(c)) => (G1(c) + 1 < NX - EDGE + 1)
               /\ (n = (G1(c) - 1) * W1 + G2(c)) => (G1(c) - 1 > EDGE - 2)
               /\ (n = G1(c) * W1 + (G2(c) + 1)) => (G2(c) + 1 < NP - EDGE + 1)
               /\ (n = G1(c) * W1 + (G2(c) - 1)) => (G2(c) - 1 > EDGE - 2) }
            : c \in seeds }

\* the non-live 4-neighbours of the seeds that the expansion loops push
RingOf(seeds, mask) ==
    UNION { {n \in { (G1(c) + 1) * W1 + G2(c), (G1(c) - 1) * W1 + G2(c),
                     G1(c) * W1 + (G2(c) + 1), G1(c) * W1 + (G2(c) - 1) } :
               /\ ~mask[n]
               /\ (n = (G1(c) + 1) * W1 + G2(c)) => (G1(c) + 1 < NX - EDGE - 1)
               /\ (n = (G1(c) - 1) * W1 + G2(c)) => (G1(c) - 1 > EDGE)
               /\ (n = G1(c) * W1 + (G2(c) + 1)) => (G2(c) + 1 < NP - EDGE - 1)
               /\ (n = G1(c) * W1 + (G2(c) - 1)) => (G2(c) - 1 > EDGE) }
            : c \in seeds }

\* the number of loop iterations (seeds) that push cell n into tmpVec
PushCount(seeds, mask, n) ==
    Cardinality({ c \in seeds : n \in RingOf({c}, mask) })

\* the initial truncation leaving PF as it is on the cells it drops
InitialTruncation_keepPF ==
    /\ UNCHANGED << maskWrites, rkLog >>
    /\ pc = "truncate"
    /\ LET TolHd_sq == TolHd * TolHd
           b1(c) == fLt(F[c], TolH)
           b2(c) == GradLt(GradSq(fAbs(fSub(F[c + W1], F[c - W1])), 2,
                                  fAbs(fSub(F[c + 1], F[c - 1])), 2), TolHd_sq)
       IN  TAMask' = [c \in Cells |-> c \in Interior /\ ~(b1(c) /\ b2(c))]
    /\ PF' = PF
    /\ ta_size' = Cardinality({c \in Interior : TAMask'[c]})
    /\ x1_min' = BIG_NUMBER /\ x2_min' = BIG_NUMBER
    /\ x1_max' = -BIG_NUMBER /\ x2_max' = -BIG_NUMBER
    /\ pc' = IF ta_size' = 0 THEN "moments0" ELSE "tabox0"
    /\ UNCHANGED << fgVars, tt, parVars, F, FF, Feq_loc, rkVars, momVars, TB, exVars, norm >>

\* lines 484-523: initial truncation
InitialTruncation ==
    /\ UNCHANGED << maskWrites, rkLog >>
    /\ pc = "truncate"
    /\ LET TolHd_sq == TolHd * TolHd
           b1(c) == fLt(F[c], TolH)
           b2(c) == GradLt(GradSq(fAbs(fSub(F[c + W1], F[c - W1])), 2,
                                  fAbs(fSub(F[c + 1], F[c - 1])), 2), TolHd_sq)
       IN  TAMask' = [c \in Cells |-> c \in Interior /\ ~(b1(c) /\ b2(c))]
    /\ PF' = [c \in Cells |-> IF c \in Interior /\ ~TAMask'[c] THEN 0 ELSE PF[c]]
    /\ ta_size' = Cardinality({c \in Interior : TAMask'[c]})
    /\ x1_min' = BIG_NUMBER /\ x2_min' = BIG_NUMBER
    /\ x1_max' = -BIG_NUMBER /\ x2_max' = -BIG_NUMBER
    /\ pc' = IF ta_size' = 0 THEN "moments0" ELSE "tabox0"
    /\ UNCHANGED << fgVars, tt, parVars, F, FF, Feq_loc, rkVars, momVars, TB, exVars, norm >>

\* lines 537-550: TA box of the initial mask; F is cleared outside it
InitialTABox ==
    /\ UNCHANGED << maskWrites, rkLog >>
    /\ pc = "tabox0"
    /\ LET L == { c \in Interior : TAMask[c] }
       IN  /\ x1_min' = MinOf(x1_min, {G1(c) : c \in L})
           /\ x1_max' = MaxOf(x1_max, {G1(c) : c \in L})
           /\ x2_min' = MinOf(x2_min, {G2(c) : c \in L})
           /\ x2_max' = MaxOf(x2_max, {G2(c) : c \in L})
    /\ F' = [c \in Cells |-> IF c \in Interior /\ ~TAMask[c] THEN 0 ELSE F[c]]
    /\ pc' = "tb0"
    /\ UNCHANGED << fgVars, tt, parVars, FF, PF, Feq_loc, rkVars, TAMask, momVars,
                    ta_size, TB, exVars, norm >>

\* lines 555-568: initial TB
InitialTB ==
    /\ UNCHANGED << maskWrites, rkLog >>
    /\ pc = "tb0"
    /\ TB' = BoundaryOf(TAMask, Rect(x1_min, x1_max, x2_min, x2_max))
    /\ pc' = "expand0"
    /\ UNCHANGED << fgVars, tt, parVars, F, FF, PF, Feq_loc, rkVars, TAMask, momVars,
                    boxVars, exVars, norm >>

\* lines 574-642: initial TA expansion, TA box update and ta_size
InitialExpansion ==
    /\ UNCHANGED rkLog
    /\ pc = "expand0"
    /\ LET tmpVec == RingOf(TB, TAMask)
       IN  /\ TAMask' = [c \in Cells |-> TAMask[c] \/ c \in tmpVec]
           \* tmpVec is sorted and made unique (lines 595-597): the loop of
           \* lines 607-619 has one iteration per cell
           /\ maskWrites' = [c \in Cells |-> IF c \in tmpVec THEN 1 ELSE 0]
           /\ x1_min' = MinOf(x1_min, {G1(c) : c \in tmpVec})
           /\ x1_max' = MaxOf(x1_max, {G1(c) : c \in tmpVec})
           /\ x2_min' = MinOf(x2_min, {G2(c) : c \in tmpVec})
           /\ x2_max' = MaxOf(x2_max, {G2(c) : c \in tmpVec})
    /\ ta_size' = Cardinality({c \in Rect(x1_min', x1_max', x2_min', x2_max') :
                                 TAMask'[c]})
    /\ pc' = "moments0"
    /\ UNCHANGED << fgVars, tt, parVars, F, FF, PF, Feq_loc, rkVars, momVars,
                    TB, exVars, norm >>

\* lines 662-824: the three momentum moments before the time loop
InitialMoments ==
    /\ UNCHANGED << maskWrites, rkLog >>
    /\ pc = "moments0"
    /\ LET rows == IF isFullGrid THEN Rows ELSE BoxRows
           S(i) == IF isFullGrid THEN RowCells(i)
                   ELSE { c \in RowCells(i) : InBox(c) /\ TAMask[c] }
           M == [i \in Rows |-> IF i \in rows
                                 THEN MomentsRow(S(i), F, isLinearizedCollision,
                                                 isIsothermal)
                                 ELSE [density |-> Density[i],
                                       velocity |-> Velocity[i],
                                       temp |-> Temperature[i]]]
       IN  /\ Density' = [i \in Rows |-> M[i].density]
           /\ Velocity' = [i \in Rows |-> M[i].velocity]
           /\ Temperature' = [i \in Rows |-> M[i].temp]
    /\ pc' = "head"
    /\ UNCHANGED << fgVars, tt, parVars, F, FF, PF, Feq_loc, rkVars, TAMask,
                    boxVars, TB, exVars, norm >>

(***************************************************************************)
(* Time loop.                                                              *)
(***************************************************************************)
\* the edge-gradient rule: a non-live neighbour is replaced by the centre
\* value and the divisor is the number of live neighbours in the direction
EdgeGrad(Fld, mask, c) ==
    LET nx1 == (IF mask[c + W1] THEN 1 ELSE 0) + (IF mask[c - W1] THEN 1 ELSE 0)
        nx2 == (IF mask[c + 1] THEN 1 ELSE 0) + (IF mask[c - 1] THEN 1 ELSE 0)
        f1p == IF mask[c + W1] THEN Fld[c + W1] ELSE Fld[c]
        f1m == IF mask[c - W1] THEN Fld[c - W1] ELSE Fld[c]
        f2p == IF mask[c + 1] THEN Fld[c + 1] ELSE Fld[c]
        f2m == IF mask[c - 1] THEN Fld[c - 1] ELSE Fld[c]
    IN  GradSq(fAbs(fSub(f1p, f1m)), nx1, fAbs(fSub(f2p, f2m)), nx2)

\* lines 835-998: head of a time step and the TBL scan
StepHead ==
    /\ UNCHANGED maskWrites
    /\ rkLog' = [whole |-> 0, written |-> {}]
    /\ pc = "head"
    /\ tt < NSteps
    /\ Excount' = 0
    /\ passes' = 0
    /\ IF ~isFullGrid
       THEN LET TolLd_sq == TolLd * TolLd
                b1(c) == fGe(PF[c], TolL)
                b2(c) == GradGe(EdgeGrad(F, TAMask, c), TolLd_sq)
                b3(c) == G1(c) > EDGE /\ G2(c) > EDGE
                b4(c) == (G1(c) < NX - EDGE - 1) /\ (G2(c) < NP - EDGE - 1)
            IN  /\ TBL' = { c \in TB : (b1(c) \/ b2(c)) /\ b3(c) /\ b4(c) }
                /\ TBL_P' = TBL'
       ELSE UNCHANGED << TBL, TBL_P >>
    /\ isExtrapolate' = FALSE
    /\ isFirstExtrp' = TRUE
    /\ pc' = "while"
    /\ UNCHANGED << fgVars, tt, parVars, F, FF, PF, Feq_loc, rkVars, TAMask, momVars,
                    boxVars, TB, ExFF, Check, ExTBL, ExBD, norm >>

\* line 835: the loop condition fails; lines 2562-2577
Finish ==
    /\ UNCHANGED << maskWrites, rkLog >>
    /\ pc = "head"
    /\ ~(tt < NSteps)
    /\ pc' = "done"
    /\ UNCHANGED << fgVars, tt, parVars, F, FF, PF, Feq_loc, rkVars, TAMask, momVars,
                    boxVars, TB, exVars, norm >>

\* the loop guard with the first time step left out
WhileCond_later == TBL /= {} /\ ~isFullGrid /\ Excount < ExLimit /\ tt >= 1

\* line 1003
WhileCond == TBL /= {} /\ ~isFullGrid /\ Excount < ExLimit

\* exp(2.0*log(n1) - log(n2))
GeoExtrap(n1, n2) ==
    IF IsNaN(n1) \/ IsNaN(n2) THEN NaN
    ELSE IF n1 < 0 \/ n2 < 0 THEN NaN
    ELSE IF n1 = PInf /\ n2 = PInf THEN NaN
    ELSE IF n1 = PInf THEN PInf
    ELSE IF n2 = PInf THEN 0
    ELSE IF n2 = 0 THEN (IF n1 = 0 THEN NaN ELSE PInf)
    ELSE Quot(n1 * n1, n2)

\* offsets of the four directions in the order of lines 1084-1151, with the
\* index into H of each
ExDirs == << -W1, W1, -1, 1 >>
ExDirH == << 0, 0, 1, 1 >>
Hof(d) == IF d = 0 THEN H0 ELSE H1

RECURSIVE ExScan(_, _, _, _)
ExScan(Fld, g, k, acc) ==
    IF k > 4 THEN acc
    ELSE LET n1 == Fld[g + ExDirs[k]]
             n2 == Fld[g + 2 * ExDirs[k]]
             upd == fNe(n1, 0) /\ fLt(fAbs(n1), acc.val_min_abs) /\ fNe(n2, 0)
             val == GeoExtrap(n1, n2)
             add == fNe(n1, 0) /\ fNe(n2, 0) /\ Finite(val)
         IN  ExScan(Fld, g, k + 1,
                 [ val_min_abs |-> IF upd THEN fAbs(n1) ELSE acc.val_min_abs,
                   val_min     |-> IF upd THEN n1 ELSE acc.val_min,
                   min_dir     |-> IF upd THEN ExDirH[k] ELSE acc.min_dir,
                   sum         |-> IF add THEN acc.sum + val ELSE acc.sum,
                   count       |-> IF add THEN acc.count + 1 ELSE acc.count ])

\* lines 1084-1151: the <<row, column>> of the cells at distance 1 and 2 of
\* a target that the extrapolation reads
ExReads(g) == { <<G1(g) + k * d[1], G2(g) + k * d[2]>> :
                  k \in {1, 2}, d \in { <<-1, 0>>, <<1, 0>>, <<0, -1>>, <<0, 1>> } }

\* lines 1071-1168: Check[i] and ExTBL[i] of one extrapolation target
ExtrapVal(Fld, g, red) ==
    LET r == ExScan(Fld, g, 1, [val_min_abs |-> PInf, val_min |-> PInf,
                                min_dir |-> -1, sum |-> 0, count |-> 0])
    IN  IF r.count = 0
        THEN [check |-> FALSE, val |-> 0]
        ELSE LET avg == Quot(r.sum, r.count)
             IN  IF fGt(Abs(avg), r.val_min_abs)
                 THEN [check |-> TRUE,
                       val |-> Quot(r.val_min
                                    * ExpMilli(10 * red * Hof(r.min_dir)), 1000)]
                 ELSE [check |-> TRUE, val |-> avg]

\* the targets bounded by the interior instead of the strict interior
ExTargets_edge(Fld, tbl) ==
    UNION { {n \in { (G1(c) - 1) * W1 + G2(c), (G1(c) + 1) * W1 + G2(c),
                     G1(c) * W1 + (G2(c) - 1), G1(c) * W1 + (G2(c) + 1) } :
               /\ fEq(Fld[n], 0)
               /\ (n = (G1(c) - 1) * W1 + G2(c)) => (G1(c) - 1 >= EDGE)
               /\ (n = (G1(c) + 1) * W1 + G2(c)) => (G1(c) + 1 <= NX - EDGE - 1)
               /\ (n = G1(c) * W1 + (G2(c) - 1)) => (G2(c) - 1 >= EDGE)
               /\ (n = G1(c) * W1 + (G2(c) + 1)) => (G2(c) + 1 <= NP - EDGE - 1) }
            : c \in tbl }

\* the targets with every bound two cells too wide
ExTargets_wide(Fld, tbl) ==
    UNION { {n \in { (G1(c) - 1) * W1 + G2(c), (G1(c) + 1) * W1 + G2(c),
                     G1(c) * W1 + (G2(c) - 1), G1(c) * W1 + (G2(c) + 1) } :
               /\ fEq(Fld[n], 0)
               /\ (n = (G1(c) - 1) * W1 + G2(c)) => (G1(c) - 1 > EDGE - 2)
               /\ (n = (G1(c) + 1) * W1 + G2(c)) => (G1(c) + 1 < NX - EDGE + 1)
               /\ (n = G1(c) * W1 + (G2(c) - 1)) => (G2(c) - 1 > EDGE - 2)
               /\ (n = G1(c) * W1 + (G2(c) + 1)) => (G2(c) + 1 < NP - EDGE + 1) }
            : c \in tbl }

\* lines 1018-1033: zero-valued neighbours of the TBL cells
ExTargets(Fld, tbl) ==
    UNION { {n \in { (G1(c) - 1) * W1 + G2(c), (G1(c) + 1) * W1 + G2(c),
                     G1(c) * W1 + (G2(c) - 1), G1(c) * W1 + (G2(c) + 1) } :
               /\ fEq(Fld[n], 0)
               /\ (n = (G1(c) - 1) * W1 + G2(c)) => (G1(c) - 1 > EDGE)
               /\ (n = (G1(c) + 1) * W1 + G2(c)) => (G1(c) + 1 < NX - EDGE - 1)
               /\ (n = G1(c) * W1 + (G2(c) - 1)) => (G2(c) - 1 > EDGE)
               /\ (n = G1(c) * W1 + (G2(c) + 1)) => (G2(c) + 1 < NP - EDGE - 1) }
            : c \in tbl }

\* the targets taken from the last index to the first, each value computed
\* from the field that holds the values of the targets taken before it
RECURSIVE SeqCommit(_, _, _)
SeqCommit(Fld, todo, red) ==
    IF todo = {} THEN Fld
    ELSE LET g == CHOOSE x \in todo : \A y \in todo : x >= y
             r == ExtrapVal(Fld, g, red)
         IN  SeqCommit(IF r.check THEN [Fld EXCEPT ![g] = r.val] ELSE Fld,
                       todo \ {g}, red)

\* the pass with each candidate written to F as soon as it is computed
FindTargets_inplace ==
    /\ UNCHANGED << maskWrites, rkLog >>
    /\ pc = "while"
    /\ WhileCond
    /\ isExtrapolate' = TRUE
    /\ passes' = passes + 1
    /\ LET tmpVec == ExTargets(F, TBL)
           cand   == IF tmpVec = {} THEN {} ELSE tmpVec \ TBL
           R      == [g \in cand |-> ExtrapVal(F, g, ExReduce)]
           count  == Cardinality({g \in cand : R[g].check})
       IN  IF tmpVec = {}
           THEN /\ ExFF' = {}
                /\ UNCHANGED << F, Check, ExTBL >>
           ELSE /\ F' = SeqCommit(F, cand, ExReduce)
                /\ IF count = 0
                   THEN ExFF' = {} /\ Check' = << >> /\ ExTBL' = << >>
                   ELSE /\ ExFF' = cand
                        /\ Check' = [g \in cand |-> R[g].check]
                        /\ ExTBL' = [g \in cand |-> R[g].val]
    /\ pc' = "extr"
    /\ UNCHANGED << fgVars, tt, parVars, FF, PF, Feq_loc, rkVars, TAMask, momVars,
                    boxVars, TB, TBL, TBL_P, ExBD, Excount, isFirstExtrp, norm >>

\* lines 1003-1188: one pass of the while loop up to the commit of the
\* extrapolated values
FindTargets ==
    /\ UNCHANGED << maskWrites, rkLog >>
    /\ pc = "while"
    /\ WhileCond
    /\ isExtrapolate' = TRUE
    /\ passes' = passes + 1
    /\ LET tmpVec == ExTargets(F, TBL)
           cand   == IF tmpVec = {} THEN {} ELSE tmpVec \ TBL
           R      == [g \in cand |-> ExtrapVal(F, g, ExReduce)]
           count  == Cardinality({g \in cand : R[g].check})
       IN  IF tmpVec = {}
           THEN /\ ExFF' = {}
                /\ UNCHANGED << F, Check, ExTBL >>
           ELSE /\ F' = [c \in Cells |-> IF c \in cand /\ R[c].check
                                          THEN R[c].val ELSE F[c]]
                /\ IF count = 0
                   THEN ExFF' = {} /\ Check' = << >> /\ ExTBL' = << >>
                   ELSE /\ ExFF' = cand
                        /\ Check' = [g \in cand |-> R[g].check]
                        /\ ExTBL' = [g \in cand |-> R[g].val]
    /\ pc' = "extr"
    /\ UNCHANGED << fgVars, tt, parVars, FF, PF, Feq_loc, rkVars, TAMask, momVars,
                    boxVars, TB, TBL, TBL_P, ExBD, Excount, isFirstExtrp, norm >>

Committed == { g \in ExFF : Check[g] }

\* lines 1192-1229: first extrapolation of a step, the mask absorbs the
\* committed targets and their ring
C1Expand ==
    /\ UNCHANGED << maskWrites, rkLog >>
    /\ pc = "extr"
    /\ isFirstExtrp
    /\ LET tmpVec == Committed \cup RingOf(Committed, TAMask)
       IN  /\ TAMask' = [c \in Cells |-> TAMask[c] \/ c \in tmpVec]
           /\ x1_min' = MinOf(x1_min, {G1(c) : c \in tmpVec})
           /\ x1_max' = MaxOf(x1_max, {G1(c) : c \in tmpVec})
           /\ x2_min' = MinOf(x2_min, {G2(c) : c \in tmpVec})
           /\ x2_max' = MaxOf(x2_max, {G2(c) : c \in tmpVec})
    /\ pc' = "c1mom"
    /\ UNCHANGED << fgVars, tt, parVars, F, FF, PF, Feq_loc, rkVars, momVars, ta_size,
                    TB, exVars, norm >>

\* the rows' moments and the local Maxwellian on the live cells of the box
\* (lines 1242-1310 and 1796-1864)
BoxMoments(D0) ==
    LET S(i) == { c \in RowCells(i) : InBox(c) /\ TAMask[c] }
        M == [i \in Rows |-> IF i \in BoxRows
                             THEN MomentsRow(S(i), F, isLinearizedCollision,
                                             isIsothermal)
                             ELSE [density |-> D0[i],
                                   velocity |-> Velocity[i],
                                   temp |-> Temperature[i]]]
    IN  /\ Density' = [i \in Rows |-> M[i].density]
        /\ Velocity' = [i \in Rows |-> M[i].velocity]
        /\ Temperature' = [i \in Rows |-> M[i].temp]
        /\ Feq_loc' = [c \in Cells |->
              IF InBox(c) /\ TAMask[c]
              THEN IF fLe(Density'[G1(c)], 0) THEN 0
                   ELSE FeqVal(Density'[G1(c)], Velocity'[G1(c)],
                               Temperature'[G1(c)], G2(c))
              ELSE Feq_loc[c]]

\* lines 1236-1310
C1Moments ==
    /\ UNCHANGED << maskWrites, rkLog >>
    /\ pc = "c1mom"
    /\ BoxMoments([i \in Rows |-> 0])
    /\ pc' = "c1k1"
    /\ UNCHANGED << fgVars, tt, parVars, F, FF, PF, rkVars, TAMask, boxVars, TB,
                    exVars, norm >>

\* lines 1479-1483
NoTargets ==
    /\ UNCHANGED << maskWrites, rkLog >>
    /\ UNCHANGED passes
    /\ pc = "extr"
    /\ ~isFirstExtrp
    /\ ExFF = {}
    /\ TBL' = {}
    /\ pc' = "rebuild"
    /\ UNCHANGED << fgVars, tt, parVars, F, FF, PF, Feq_loc, rkVars, TAMask, momVars,
                    boxVars, TB, TBL_P, ExFF, Check, ExTBL, ExBD, Excount,
                    isExtrapolate, isFirstExtrp, norm >>

\* lines 385-403: offsets of Manhattan distance 1..4
neighlist == { <<n1, n2>> \in (-4 .. 4) \X (-4 .. 4) :
                  Abs(n1) + Abs(n2) >= 1 /\ Abs(n1) + Abs(n2) <= 4 }
Diamond(g) == { (G1(g) + n[1]) * W1 + (G2(g) + n[2]) : n \in neighlist }

\* lines 1538-1544: the <<row, column>> of the mask cells read around a
\* committed target
DiamondReads(g) == { <<G1(g) + n[1], G2(g) + n[2]>> : n \in neighlist }

\* lines 1488-1574: a later extrapolation of the step, mask, ExBD and the
\* local Maxwellian on ExBD.  A TAMask read outside the array is undefined:
\* it yields false, or it yields true and the index enters ExBD
XExpand ==
    /\ UNCHANGED << maskWrites, rkLog >>
    /\ UNCHANGED passes
    /\ pc = "extr"
    /\ ~isFirstExtrp
    /\ ExFF /= {}
    /\ LET tmpVec == { g \in Committed : ~TAMask[g] } \cup RingOf(Committed, TAMask)
       IN  /\ TAMask' = [c \in Cells |-> TAMask[c] \/ c \in tmpVec]
           /\ x1_min' = MinOf(x1_min, {G1(c) : c \in tmpVec})
           /\ x1_max' = MaxOf(x1_max, {G1(c) : c \in tmpVec})
           /\ x2_min' = MinOf(x2_min, {G2(c) : c \in tmpVec})
           /\ x2_max' = MaxOf(x2_max, {G2(c) : c \in tmpVec})
    /\ LET reads == UNION { Diamond(g) : g \in Committed }
       IN  \/ /\ ExBD' = Committed \cup { c \in reads \cap Cells : TAMask'[c] }
              /\ Feq_loc' = [c \in Cells |->
                    IF c \in ExBD'
                    THEN IF fGt(Density[G1(c)], 0)
                         THEN FeqVal(Density[G1(c)], Velocity[G1(c)],
                                     Temperature[G1(c)], G2(c))
                         ELSE 0
                    ELSE Feq_loc[c]]
              /\ pc' = "xk1"
           \/ /\ reads \ Cells /= {}
              /\ ExBD' = Committed \cup { c \in reads \cap Cells : TAMask'[c] }
                                   \cup (reads \ Cells)
              /\ Feq_loc' = Feq_loc
              /\ pc' = "ub"
    /\ UNCHANGED << fgVars, tt, parVars, F, FF, PF, rkVars, momVars, ta_size, TB,
                    TBL, TBL_P, ExFF, Check, ExTBL, Excount, isExtrapolate,
                    isFirstExtrp, norm >>

(***************************************************************************)
(* Runge-Kutta 4.                                                          *)
(***************************************************************************)
\* common denominator of k2h0m = kk/(2*H[0]*m), k2h1 = kk/(2*H[1]),
\* kgamma = kk*gamma and of the factor 0.5 of the half stages
RKDen == 4 * KK_DEN * H0 * H1 * m

\* lines 1343-1348: the <<row, column>> of the four neighbours a stage reads
StencilReads(c) == { <<G1(c) + 1, G2(c)>>, <<G1(c) - 1, G2(c)>>,
                     <<G1(c), G2(c) + 1>>, <<G1(c), G2(c) - 1>> }

\* one slope: -k2h0m*xx2*(f1p + a*kk1p - f1m - a*kk1m)
\*            + k2h1*POTENTIAL_X*(f2p + a*kk2p - f2m - a*kk2m)
\*            + kgamma*(feq - f0 - a*kk0),  a = a2/2; the first stage reads
\* no slope at all
Slope(Fld, Kp, Fq, c, a2) ==
    LET c1 == -(KK_NUM * H1 * XX2(G2(c)))
        c2 == KK_NUM * H0 * m * POTENTIAL_X(XX1(G1(c)), XX2(G2(c)))
        c3 == 2 * KK_NUM * gamma * H0 * H1 * m
        fs == << <<2 * c1, Fld[c + W1]>>, <<-2 * c1, Fld[c - W1]>>,
                 <<2 * c2, Fld[c + 1]>>,  <<-2 * c2, Fld[c - 1]>>,
                 <<2 * c3, Fq[c]>>,       <<-2 * c3, Fld[c]>> >>
        ks == << <<a2 * c1, Kp[c + W1]>>, <<-a2 * c1, Kp[c - W1]>>,
                 <<a2 * c2, Kp[c + 1]>>,  <<-a2 * c2, Kp[c - 1]>>,
                 <<-a2 * c3, Kp[c]>> >>
    IN  LinComb(IF a2 = 0 THEN fs ELSE fs \o ks, RKDen)

\* the later passes looping over the committed targets only
RKRegion_targets(v) == IF v = "c3" THEN Interior
                       ELSE IF v = "x" THEN Committed
                       ELSE LiveInBox

\* the cells a stage loops over
RKRegion(v) == IF v = "c3" THEN Interior
               ELSE IF v = "x" THEN ExBD
               ELSE LiveInBox

RKCase == IF pc \in {"c1k1", "c1k2", "c1k3", "c1k4"} THEN "c1"
          ELSE IF pc \in {"xk1", "xk2", "xk3", "xk4"} THEN "x"
          ELSE IF pc \in {"c2k1", "c2k2", "c2k3", "c2k4"} THEN "c2"
          ELSE "c3"
RKpc(v, n) == IF v = "c1" THEN << "c1k1", "c1k2", "c1k3", "c1k4", "rebuild" >>[n]
              ELSE IF v = "x" THEN << "xk1", "xk2", "xk3", "xk4", "rebuild" >>[n]
              ELSE IF v = "c2" THEN << "c2k1", "c2k2", "c2k3", "c2k4", "norm" >>[n]
              ELSE << "c3k1", "c3k2", "c3k3", "c3k4", "norm" >>[n]

\* the first stage updating F in place instead of FF
RK4_1_inplace ==
    /\ UNCHANGED << maskWrites, rkLog >>
    /\ pc \in {"c1k1", "xk1", "c2k1", "c3k1"}
    /\ LET S == RKRegion(RKCase)
       IN  /\ KK1' = [c \in Cells |-> IF c \in S THEN Slope(F, KK1, Feq_loc, c, 0)
                                      ELSE KK1[c]]
           /\ F' = [c \in Cells |-> IF c \in S
                        THEN LinComb(<< <<6, F[c]>>, <<1, KK1'[c]>> >>, 6)
                        ELSE F[c]]
           /\ FF' = F'
    /\ pc' = RKpc(RKCase, 2)
    /\ UNCHANGED << fgVars, tt, parVars, PF, Feq_loc, KK2, KK3, KK4, TAMask, momVars,
                    boxVars, TB, exVars, norm >>

\* RK4-1 (lines 1337-1358, 1599-1622, 1873-1893, 2093-2113)
RK4_1 ==
    /\ UNCHANGED << maskWrites, rkLog >>
    /\ pc \in {"c1k1", "xk1", "c2k1", "c3k1"}
    /\ LET S == RKRegion(RKCase)
       IN  /\ KK1' = [c \in Cells |-> IF c \in S THEN Slope(F, KK1, Feq_loc, c, 0)
                                      ELSE KK1[c]]
           /\ FF' = [c \in Cells |-> IF c \in S
                        THEN LinComb(<< <<6, F[c]>>, <<1, KK1'[c]>> >>, 6)
                        ELSE FF[c]]
    /\ pc' = RKpc(RKCase, 2)
    /\ UNCHANGED << fgVars, tt, parVars, F, PF, Feq_loc, KK2, KK3, KK4, TAMask, momVars,
                    boxVars, TB, exVars, norm >>

\* RK4-2 (lines 1368-1393, 1632-1659, 1903-1928, 2123-2148)
RK4_2 ==
    /\ UNCHANGED << maskWrites, rkLog >>
    /\ pc \in {"c1k2", "xk2", "c2k2", "c3k2"}
    /\ LET S == RKRegion(RKCase)
       IN  /\ KK2' = [c \in Cells |-> IF c \in S THEN Slope(F, KK1, Feq_loc, c, 1)
                                      ELSE KK2[c]]
           /\ FF' = [c \in Cells |-> IF c \in S
                        THEN LinComb(<< <<3, FF[c]>>, <<1, KK2'[c]>> >>, 3)
                        ELSE FF[c]]
    /\ pc' = RKpc(RKCase, 3)
    /\ UNCHANGED << fgVars, tt, parVars, F, PF, Feq_loc, KK1, KK3, KK4, TAMask, momVars,
                    boxVars, TB, exVars, norm >>

\* RK4-3 (lines 1403-1428, 1669-1696, 1938-1963, 2158-2183)
RK4_3 ==
    /\ UNCHANGED << maskWrites, rkLog >>
    /\ pc \in {"c1k3", "xk3", "c2k3", "c3k3"}
    /\ LET S == RKRegion(RKCase)
       IN  /\ KK3' = [c \in Cells |-> IF c \in S THEN Slope(F, KK2, Feq_loc, c, 1)
                                      ELSE KK3[c]]
           /\ FF' = [c \in Cells |-> IF c \in S
                        THEN LinComb(<< <<3, FF[c]>>, <<1, KK3'[c]>> >>, 3)
                        ELSE FF[c]]
    /\ pc' = RKpc(RKCase, 4)
    /\ UNCHANGED << fgVars, tt, parVars, F, PF, Feq_loc, KK1, KK2, KK4, TAMask, momVars,
                    boxVars, TB, exVars, norm >>

\* RK4-4 (lines 1438-1476, 1706-1717, 1973-2028, 2193-2236)
RK4_4 ==
    /\ UNCHANGED maskWrites
    /\ rkLog' = [whole |-> rkLog.whole + (IF RKCase = "x" THEN 0 ELSE 1),
                  written |-> rkLog.written \cup RKRegion(RKCase)]
    /\ UNCHANGED passes
    /\ pc \in {"c1k4", "xk4", "c2k4", "c3k4"}
    /\ LET S == RKRegion(RKCase)
       IN  /\ KK4' = [c \in Cells |-> IF c \in S THEN Slope(F, KK3, Feq_loc, c, 2)
                                      ELSE KK4[c]]
           /\ FF' = [c \in Cells |-> IF c \in S
                        THEN LinComb(<< <<6, FF[c]>>, <<1, KK4'[c]>> >>, 6)
                        ELSE FF[c]]
    /\ isFirstExtrp' = IF RKCase = "c1" THEN FALSE ELSE isFirstExtrp
    /\ pc' = RKpc(RKCase, 5)
    /\ UNCHANGED << fgVars, tt, parVars, F, PF, Feq_loc, KK1, KK2, KK3, TAMask, momVars,
                    boxVars, TB, TBL, TBL_P, ExFF, Check, ExTBL, ExBD, Excount,
                    isExtrapolate, norm >>

\* lines 1721-1786: the next TBL from the committed targets, and Excount
RebuildTBL ==
    /\ UNCHANGED << maskWrites, rkLog >>
    /\ UNCHANGED passes
    /\ pc = "rebuild"
    /\ IF ExFF /= {}
       THEN LET TolHd_sq == TolHd * TolHd
                b1(c) == fGe(FF[c], TolH)
                b2(c) == GradGe(EdgeGrad(FF, TAMask, c), TolHd_sq)
                b3(c) == G2(c) > EDGE /\ G2(c) > EDGE
                b4(c) == (G1(c) < NX - EDGE - 1) /\ (G2(c) < NP - EDGE - 1)
                new == { c \in Committed : (b1(c) \/ b2(c)) /\ b3(c) /\ b4(c) }
                           \ TBL_P
            IN  /\ TBL_P' = TBL_P \cup new
                /\ Excount' = Excount + 1
                /\ TBL' = IF Excount' = ExLimit THEN {} ELSE new
       ELSE UNCHANGED << TBL, TBL_P, Excount >>
    /\ pc' = "while"
    /\ UNCHANGED << fgVars, tt, parVars, F, FF, PF, Feq_loc, rkVars, TAMask, momVars,
                    boxVars, TB, ExFF, Check, ExTBL, ExBD, isExtrapolate,
                    isFirstExtrp, norm >>

\* lines 1793-1864: CASE 2, truncated step without extrapolation
Case2Moments ==
    /\ UNCHANGED << maskWrites, rkLog >>
    /\ pc = "while"
    /\ ~WhileCond
    /\ ~isExtrapolate /\ ~isFullGrid
    /\ BoxMoments(Density)
    /\ pc' = "c2k1"
    /\ UNCHANGED << fgVars, tt, parVars, F, FF, PF, rkVars, TAMask, boxVars, TB,
                    exVars, norm >>

\* lines 2029-2087: CASE 3, full grid
Case3Moments ==
    /\ UNCHANGED << maskWrites, rkLog >>
    /\ pc = "while"
    /\ ~WhileCond
    /\ ~isExtrapolate /\ isFullGrid
    /\ LET M == [i \in Rows |-> MomentsRow(RowCells(i), F,
                                           isLinearizedCollision, isIsothermal)]
       IN  /\ Density' = [i \in Rows |-> M[i].density]
           /\ Velocity' = [i \in Rows |-> M[i].velocity]
           /\ Temperature' = [i \in Rows |-> M[i].temp]
           /\ Feq_loc' = [c \in Cells |->
                 IF fLe(Density'[G1(c)], 0) THEN 0
                 ELSE FeqVal(Density'[G1(c)], Velocity'[G1(c)],
                             Temperature'[G1(c)], G2(c))]
    /\ pc' = "c3k1"
    /\ UNCHANGED << fgVars, tt, parVars, F, FF, PF, rkVars, TAMask, boxVars, TB,
                    exVars, norm >>

(***************************************************************************)
(* The full-grid run of the same parameters, one whole step of CASE 3.     *)
(***************************************************************************)
\* lines 2029-2303 on the buffers of the full-grid run
FullGridStep ==
    /\ Feq_fg' = [c \in Cells |->
          LET M == MomentsRow(RowCells(G1(c)), F_fg, isLinearizedCollision,
                              isIsothermal)
          IN  IF fLe(M.density, 0) THEN 0
              ELSE FeqVal(M.density, M.velocity, M.temp, G2(c))]
    /\ KK1_fg' = [c \in Cells |-> IF c \in Interior
                     THEN Slope(F_fg, KK1_fg, Feq_fg', c, 0) ELSE KK1_fg[c]]
    /\ KK2_fg' = [c \in Cells |-> IF c \in Interior
                     THEN Slope(F_fg, KK1_fg', Feq_fg', c, 1) ELSE KK2_fg[c]]
    /\ KK3_fg' = [c \in Cells |-> IF c \in Interior
                     THEN Slope(F_fg, KK2_fg', Feq_fg', c, 1) ELSE KK3_fg[c]]
    /\ KK4_fg' = [c \in Cells |-> IF c \in Interior
                     THEN Slope(F_fg, KK3_fg', Feq_fg', c, 2) ELSE KK4_fg[c]]
    /\ LET FF1(c) == LinComb(<< <<6, F_fg[c]>>, <<1, KK1_fg'[c]>> >>, 6)
           FF2(c) == LinComb(<< <<3, FF1(c)>>, <<1, KK2_fg'[c]>> >>, 3)
           FF3(c) == LinComb(<< <<3, FF2(c)>>, <<1, KK3_fg'[c]>> >>, 3)
           FF4(c) == LinComb(<< <<6, FF3(c)>>, <<1, KK4_fg'[c]>> >>, 6)
       IN  /\ norm_fg' = WSum(Interior, [c \in Interior |-> H0 * H1],
                              [c \in Interior |-> FF4(c)], 1)
           /\ F_fg' = [c \in Cells |-> IF c \in Interior
                          THEN NormMul(norm_fg', FF4(c)) ELSE F_fg[c]]

(***************************************************************************)
(* Normalization and the end-of-step maintenance of the truncated region.  *)
(***************************************************************************)
\* the cells the normalization loops cover
UpdateRegion == IF isFullGrid THEN Interior ELSE LiveInBox

\* lines 2245-2266: norm = sum of FF over the update region times H[0]*H[1]
NormCompute ==
    /\ UNCHANGED << maskWrites, rkLog >>
    /\ \/ pc = "norm"
       \/ pc = "while" /\ ~WhileCond /\ isExtrapolate
    /\ norm' = WSum(UpdateRegion, [c \in UpdateRegion |-> H0 * H1], FF, 1)
    /\ pc' = "apply"
    /\ UNCHANGED << fgVars, tt, parVars, F, FF, PF, Feq_loc, rkVars, TAMask, momVars,
                    boxVars, TB, exVars >>

\* lines 2271-2303: norm = 1.0/norm and FF = F = PF = norm*FF; there is no
\* test of the sign of norm.  On the full grid the step ends here (line 2560)
NormApply ==
    /\ UNCHANGED << maskWrites, rkLog >>
    /\ pc = "apply"
    /\ FF' = [c \in Cells |-> IF c \in UpdateRegion THEN NormMul(norm, FF[c])
                              ELSE FF[c]]
    /\ F' = [c \in Cells |-> IF c \in UpdateRegion THEN FF'[c] ELSE F[c]]
    /\ PF' = [c \in Cells |-> IF c \in UpdateRegion THEN FF'[c] ELSE PF[c]]
    /\ IF isFullGrid
       THEN tt' = tt + 1 /\ pc' = "head" /\ FullGridStep
       ELSE tt' = tt /\ pc' = "prune" /\ UNCHANGED fgVars
    /\ UNCHANGED << parVars, Feq_loc, rkVars, TAMask, momVars, boxVars, TB,
                    exVars, norm >>

\* lines 2317-2320 and 2330: the transmittance of a truncated run, PF summed
\* over the rows idx_x0..x1_max and the columns x2_min..x2_max
TransBox(idx_x0) ==
    LET S == { c \in Cells : /\ G1(c) >= idx_x0 /\ G1(c) <= x1_max
                             /\ G2(c) >= x2_min /\ G2(c) <= x2_max }
    IN  WSum(S, [c \in S |-> H0 * H1], PF, 1)

\* lines 2374-2416: prune and mask update
Prune ==
    /\ UNCHANGED << maskWrites, rkLog >>
    /\ pc = "prune"
    /\ LET TolHd_sq == TolHd * TolHd
           kill(c) == /\ TAMask[c]
                      /\ fLt(PF[c], TolH)
                      /\ GradLt(EdgeGrad(FF, TAMask, c), TolHd_sq)
       IN  PF' = [c \in Cells |-> IF InBox(c) /\ kill(c) THEN 0 ELSE PF[c]]
    /\ TAMask' = [c \in Cells |-> IF InBox(c) THEN ~fEq(PF'[c], 0)
                                  ELSE TAMask[c]]
    /\ F' = [c \in Cells |-> IF InBox(c) /\ fEq(PF'[c], 0) THEN 0 ELSE F[c]]
    /\ pc' = "tabox"
    /\ UNCHANGED << fgVars, tt, parVars, FF, Feq_loc, rkVars, momVars, boxVars, TB,
                    exVars, norm >>

\* lines 2424-2448: rebuild of the TA box
RebuildTA ==
    /\ UNCHANGED << maskWrites, rkLog >>
    /\ pc = "tabox"
    /\ LET live == { c \in Interior : TAMask[c] }
       IN  /\ x1_min' = MinOf(BIG_NUMBER, {G1(c) : c \in live})
           /\ x1_max' = MaxOf(-BIG_NUMBER, {G1(c) : c \in live})
           /\ x2_min' = MinOf(BIG_NUMBER, {G2(c) : c \in live})
           /\ x2_max' = MaxOf(-BIG_NUMBER, {G2(c) : c \in live})
           /\ ta_size' = Cardinality(live)
    /\ pc' = "tb"
    /\ UNCHANGED << fgVars, tt, parVars, F, FF, PF, Feq_loc, rkVars, TAMask, momVars,
                    TB, exVars, norm >>

\* lines 2454-2474: TB; with no live cell only tb_size is reset and the
\* vector TB keeps its content
BuildTB ==
    /\ UNCHANGED << maskWrites, rkLog >>
    /\ pc = "tb"
    /\ TB' = IF ta_size = 0 THEN TB
             ELSE BoundaryOf(TAMask, Rect(x1_min, x1_max, x2_min, x2_max))
    /\ pc' = "expand"
    /\ UNCHANGED << fgVars, tt, parVars, F, FF, PF, Feq_loc, rkVars, TAMask, momVars,
                    boxVars, exVars, norm >>

\* lines 2483-2530 and 2560: TA expansion by the ring of TB, end of the step
Expand ==
    /\ UNCHANGED rkLog
    /\ pc = "expand"
    /\ LET tmpVec == RingOf(TB, TAMask)
       IN  /\ TAMask' = [c \in Cells |-> TAMask[c] \/ c \in tmpVec]
           \* tmpVec is the merge of the pushes as they are (line 2487): the
           \* parallel loop of lines 2508-2520 has one iteration per push
           /\ maskWrites' = [c \in Cells |-> PushCount(TB, TAMask, c)]
           /\ x1_min' = MinOf(x1_min, {G1(c) : c \in tmpVec})
           /\ x1_max' = MaxOf(x1_max, {G1(c) : c \in tmpVec})
           /\ x2_min' = MinOf(x2_min, {G2(c) : c \in tmpVec})
           /\ x2_max' = MaxOf(x2_max, {G2(c) : c \in tmpVec})
    /\ ta_size' = Cardinality({ c \in Rect(x1_min', x1_max', x2_min', x2_max') :
                                   TAMask'[c] })
    /\ tt' = tt + 1
    /\ FullGridStep
    /\ pc' = "head"
    /\ UNCHANGED << parVars, F, FF, PF, Feq_loc, rkVars, momVars, TB, exVars,
                    norm >>

Next ==
    \/ InitWavefunction
    \/ InitialTruncation
    \/ InitialTABox
    \/ InitialTB
    \/ InitialExpansion
    \/ InitialMoments
    \/ StepHead
    \/ Finish
    \/ FindTargets
    \/ C1Expand
    \/ C1Moments
    \/ NoTargets
    \/ XExpand
    \/ RK4_1
    \/ RK4_2
    \/ RK4_3
    \/ RK4_4
    \/ RebuildTBL
    \/ Case2Moments
    \/ Case3Moments
    \/ NormCompute
    \/ NormApply
    \/ Prune
    \/ RebuildTA
    \/ BuildTB
    \/ Expand

Spec == Init /\ [][Next]_vars


(***************************************************************************)
(* Properties.                                                             *)
(***************************************************************************)
Live == { c \in Cells : TAMask[c] }
\* a truncated run between two steps (after init or after an end of step)
StepBoundary == ~isFullGrid /\ pc \in {"head", "done"}
\* the state that ends a time step
StepEnd == pc \in {"head", "done"} /\ tt >= 1
\* live cells with a non-live 4-neighbour
LiveBoundary == { c \in Live : \E n \in {c - 1, c + 1, c - W1, c + W1} :
                                  ~TAMask[n] }

\* C1: in truncated mode, at every step boundary, a cell that is not live
\* has F = 0, also when the initial truncation found no cell
C1_Consistency ==
    StepBoundary => \A c \in Cells : ~TAMask[c] => F[c] = 0

\* C2: edge cells are never live: a live cell has E <= i < N_x-E and
\* E <= j < N_p-E in every reachable state
C2_EdgeNeverLive ==
    \A c \in Cells : TAMask[c] => /\ EDGE <= G1(c) /\ G1(c) < NX - EDGE
                                  /\ EDGE <= G2(c) /\ G2(c) < NP - EDGE
\* a step with extrapolation has ended and a live cell touches the edge
C2_Witness ==
    /\ StepBoundary /\ tt >= 1 /\ isExtrapolate
    /\ \E c \in Live : G1(c) = EDGE \/ G2(c) = NP - EDGE - 1

\* C3: whenever a cell is live the box is the minimal rectangle around the
\* live cells: after the initial truncation, after every extrapolation pass
\* and at the end of every step (everywhere but between a prune and the
\* rebuild of the box that follows it)
C3_BoxTight ==
    (pc \notin {"tabox0", "tabox"} /\ Live /= {}) =>
        /\ x1_min = SetMin({G1(c) : c \in Live})
        /\ x1_max = SetMax({G1(c) : c \in Live})
        /\ x2_min = SetMin({G2(c) : c \in Live})
        /\ x2_max = SetMax({G2(c) : c \in Live})
\* a step with extrapolation has ended with a box smaller than the interior
C3_Witness ==
    /\ StepBoundary /\ tt >= 1 /\ isExtrapolate /\ Live /= {}
    /\ (x1_min > EDGE \/ x2_min > EDGE)

C5_LoopBounded ==
    [][ /\ Excount' <= ExLimit
        /\ passes' <= Excount' + 2
        /\ (pc = "while" /\ ~isFullGrid /\ ~WhileCond) =>
              /\ TBL = {} \/ Excount = ExLimit
              /\ pc' \in {"c2k1", "apply"} ]_vars
\* C6 as stated: every live cell has E+2 <= i <= N_x-3-E and
\* E+2 <= j <= N_p-3-E
C6_HaloInInterior ==
    \A c \in Live : /\ EDGE + 2 <= G1(c) /\ G1(c) <= NX - 3 - EDGE
                    /\ EDGE + 2 <= G2(c) /\ G2(c) <= NP - 3 - EDGE
\* C6 amended: every live cell has E <= i <= N_x-1-E and E <= j <= N_p-1-E,
\* so that with E >= 2 its 2-cell halo lies within the grid
C6_HaloInGrid ==
    \A c \in Live :
        /\ G1(c) \in EDGE .. (NX - 1 - EDGE)
        /\ G2(c) \in EDGE .. (NP - 1 - EDGE)
        /\ EDGE >= 2 => /\ G1(c) - 2 >= 0 /\ G1(c) + 2 <= NX - 1
                        /\ G2(c) - 2 >= 0 /\ G2(c) + 2 <= NP - 1
\* a live cell in the first interior row, its halo reaches row E-2
C6_Witness ==
    /\ StepBoundary /\ \E c \in Live : G1(c) = EDGE

\* C7: at the end of every step of a truncated run, after the normalization
\* and the mask update, F >= 0 at every cell
C7_Positivity ==
    (StepBoundary /\ tt >= 1) => \A c \in Cells : fGe(F[c], 0)

\* the state right after a normalization
AfterNormalization ==
    \/ ~isFullGrid /\ pc = "prune"
    \/ isFullGrid /\ StepEnd
\* C8: right after each normalization H0*H1 times the sum of F over the
\* update region is 1 up to one rounding per cell, and F = PF = FF there
C8_UnitMass ==
    AfterNormalization =>
        /\ \A c \in UpdateRegion : Finite(F[c]) /\ F[c] = PF[c] /\ F[c] = FF[c]
        /\ Abs(SCALE - SumSet(UpdateRegion,
                              [c \in UpdateRegion |-> H0 * H1], F))
              <= Cardinality(UpdateRegion)

\* C9: with the four tolerances 0 the truncated run has the F of the
\* full-grid run at every cell after every step
C9_FullGridEquivalence ==
    (StepBoundary /\ TolH = 0 /\ TolL = 0 /\ TolHd = 0 /\ TolLd = 0) =>
        F = F_fg

\* C10: a norm Z <= 0 is fatal: F is not rescaled and the step does not
\* go on
C10_FatalNorm ==
    [][ (pc = "apply" /\ fLe(norm, 0)) =>
            (F' = F /\ pc' \notin {"prune", "head"}) ]_vars

\* the run is inside the time loop, or has completed a step
InTimeLoop ==
    \/ pc \notin {"init", "truncate", "tabox0", "tb0", "expand0", "moments0",
                  "head", "done"}
    \/ tt >= 1
\* C11: with TolH < 0, ExLimit < 0 or a non-integer cell count in either
\* dimension the initialisation fails and time stepping never starts
C11_InitFails == BadConfig => ~InTimeLoop

\* the positions inside an RK4 pass
RKStage == pc \in {"c1k1", "c1k2", "c1k3", "c1k4", "xk1", "xk2", "xk3", "xk4",
                   "c2k1", "c2k2", "c2k3", "c2k4", "c3k1", "c3k2", "c3k3", "c3k4"}
\* C12: no stage of an RK4 pass, in any of the four variants, writes the
\* mask, F or Feq_loc: the four stages of a pass read the same three
C12_RKReadsStable ==
    [][ RKStage => (TAMask' = TAMask /\ F' = F /\ Feq_loc' = Feq_loc) ]_vars
\* the last stage of a pass over ExBD, the earlier slopes being non-zero
C12_Witness ==
    /\ pc = "xk4" /\ \E c \in ExBD : KK1[c] /= 0 /\ KK3[c] /= 0

\* C13: in the data-parallel loops that write the mask no cell is written
\* by two iterations, the end-of-step ring expansion included
C13_OneWriterPerCell == \A c \in Cells : maskWrites[c] <= 1

\* the (i,j,f) rows of a wave.dat block: the live cells of the box
WaveRows == { c \in Rect(x1_min, x1_max, x2_min, x2_max) : TAMask[c] }
\* C14: at the start of every time step of a truncated run ta_size is the
\* number of live cells, and the number of rows of the wave.dat block
C14_TaSizeCountsLive ==
    (~isFullGrid /\ pc = "head") =>
        /\ ta_size = Cardinality(Live)
        /\ ta_size = Cardinality(WaveRows)
\* a step with extrapolation has ended with some but not all cells live
C14_Witness ==
    /\ ~isFullGrid /\ pc = "head" /\ tt >= 1 /\ isExtrapolate
    /\ ta_size > 0 /\ ta_size < Cardinality(Interior)

\* h_x h_p times the sum of PF over all grid cells with i >= idx_x0
TransAll(idx_x0) ==
    LET S == { c \in Cells : G1(c) >= idx_x0 }
    IN  WSum(S, [c \in S |-> H0 * H1], PF, 1)
\* C15: where the transmittance is computed (after the normalization, before
\* the prune) the sum over the box equals the sum over all cells with
\* i >= idx_x0, for every 0 <= idx_x0 < N_x: no PF outside the box is non-zero
C15_TransmittanceInBox ==
    (~isFullGrid /\ pc = "prune") =>
        /\ \A idx_x0 \in 0 .. (NX - 1) : TransBox(idx_x0) = TransAll(idx_x0)
        /\ \A c \in Cells : ~InBox(c) => PF[c] = 0
\* the box is smaller than the interior and PF is non-zero inside it
C15_Witness ==
    /\ ~isFullGrid /\ pc = "prune" /\ tt >= 1
    /\ (x1_min > EDGE \/ x2_min > EDGE)
    /\ \E c \in Cells : InBox(c) /\ Finite(PF[c]) /\ PF[c] > 0

InGrid(rc) == rc[1] \in 0 .. (NX - 1) /\ rc[2] \in 0 .. (NP - 1)
\* C16: every cell read by the RK4 stencil around a live cell or around a
\* cell of the region a stage loops over, and every cell read by the 2-back
\* extrapolation around a target, has its row in [0, N_x) and its column in
\* [0, N_p)
C16_ReadsInGrid ==
    /\ \A c \in Live : \A r \in StencilReads(c) : InGrid(r)
    /\ RKStage => \A c \in RKRegion(RKCase) : \A r \in StencilReads(c) : InGrid(r)
    /\ (pc = "while" /\ WhileCond) =>
          \A g \in ExTargets(F, TBL) \ TBL : \A r \in ExReads(g) : InGrid(r)
\* a second pass of the loop has a target next to the edge
C16_Witness ==
    /\ pc = "while" /\ WhileCond /\ Excount >= 1
    /\ \E g \in ExTargets(F, TBL) \ TBL :
          G1(g) = EDGE + 1 \/ G2(g) = EDGE + 1
             \/ G1(g) = NX - EDGE - 2 \/ G2(g) = NP - EDGE - 2

\* the positions inside the extrapolation loop
InExLoop == pc \in {"extr", "c1mom", "c1k1", "c1k2", "c1k3", "c1k4",
                    "xk1", "xk2", "xk3", "xk4", "rebuild", "ub"}
StrictInterior(c) == /\ G1(c) > EDGE /\ G1(c) < NX - EDGE - 1
                     /\ G2(c) > EDGE /\ G2(c) < NP - EDGE - 1
\* C17 as stated: at the first time step no frontier is built and no
\* extrapolation pass runs
C17_NoFrontierAtFirstStep ==
    tt = 0 => (TBL = {} /\ ~InExLoop)
\* C17 amended: at every time step of a truncated run, the first included,
\* the frontier scan builds TBL from TB (strictly interior cells only, every
\* strictly interior TB cell with PF >= TolL among them), and a pass of the
\* extrapolation loop runs whenever TBL is non-empty and Excount < ExLimit
C17_FrontierEveryStep ==
    [][ /\ (pc = "head" /\ pc' = "while" /\ ~isFullGrid) =>
              /\ TBL' \subseteq TB /\ TBL_P' = TBL'
              /\ \A c \in TBL' : StrictInterior(c)
              /\ \A c \in TB : (StrictInterior(c) /\ Finite(PF[c])
                                   /\ PF[c] >= TolL) => c \in TBL'
        /\ (pc = "while" /\ ~isFullGrid /\ TBL /= {} /\ Excount < ExLimit) =>
              pc' = "extr" ]_vars
\* a pass of the loop has committed targets during the first time step
C17_Witness ==
    /\ tt = 0 /\ pc = "extr" /\ ExFF /= {} /\ TBL /= {}

\* the truncation test on the normalised initial F (F_fg at tt = 0): the
\* cell is kept unless F < TolH and the squared central-difference gradient
\* is < TolHd^2
KeptInitially(c) ==
    LET d1 == F_fg[c + W1] - F_fg[c - W1]
        d2 == F_fg[c + 1] - F_fg[c - 1]
    IN  ~( /\ F_fg[c] < TolH
           /\ d1 * d1 * H1 * H1 + d2 * d2 * H0 * H0
                 < 4 * H0 * H0 * H1 * H1 * TolHd * TolHd )
EdgeFree(c) == /\ EDGE <= G1(c) /\ G1(c) < NX - EDGE
               /\ EDGE <= G2(c) /\ G2(c) < NP - EDGE
\* C18 as stated: when the time loop starts an interior cell is live iff it
\* passes the truncation test
C18_LiveIffKept ==
    (~isFullGrid /\ pc = "head" /\ tt = 0) =>
        \A c \in Cells : TAMask[c] <=> (EdgeFree(c) /\ KeptInitially(c))
\* C18 amended: right after the initial truncation, before the ring
\* expansion, a cell is live iff it is interior and passes the test; when
\* the time loop starts every interior cell that passes is live and every
\* other live cell is an interior 4-neighbour of a cell that passes, added
\* by the ring expansion
C18_LiveIffKeptBeforeRing ==
    /\ (~isFullGrid /\ tt = 0 /\ (pc \in {"tabox0", "tb0", "expand0"}
                                    \/ (pc = "moments0" /\ ta_size = 0))) =>
          \A c \in Cells : TAMask[c] <=> (EdgeFree(c) /\ KeptInitially(c))
    /\ (~isFullGrid /\ pc = "head" /\ tt = 0) =>
          \A c \in Cells :
             /\ (EdgeFree(c) /\ KeptInitially(c)) => TAMask[c]
             /\ (TAMask[c] /\ ~KeptInitially(c)) =>
                   /\ EdgeFree(c)
                   /\ \E n \in {c - 1, c + 1, c - W1, c + W1} :
                         EdgeFree(n) /\ KeptInitially(n)
\* the time loop starts with a live ring cell that fails the test
C18_Witness ==
    /\ ~isFullGrid /\ pc = "head" /\ tt = 0
    /\ \E c \in Live : ~KeptInitially(c)
    /\ \E c \in Interior : ~TAMask[c]

\* C19: in the prune a live cell is removed from the mask iff its normalised
\* value is < TolH and its squared gradient under the edge-gradient rule is
\* < TolHd^2, whatever the value, 0 included
C19_PruneIffBelow ==
    [][ pc = "prune" =>
          \A c \in Live :
             ~TAMask'[c] <=> /\ fLt(PF[c], TolH)
                             /\ GradLt(EdgeGrad(F, TAMask, c), TolHd * TolHd) ]_vars

\* the cells an action makes live
NewLive == { c \in Cells : TAMask'[c] /\ ~TAMask[c] }
\* the non-live 4-neighbours of the seeds in the edge-free interior
RingInInterior(seeds) ==
    { n \in Cells : /\ EdgeFree(n) /\ ~TAMask[n]
                    /\ \E c \in seeds : n \in {c - 1, c + 1, c - W1, c + W1} }
\* the non-live 4-neighbours of the seeds whose index along the step from
\* the seed is strictly inside the edge-free interior
RingStrictlyInside(seeds) ==
    { n \in Cells :
        /\ ~TAMask[n]
        /\ \E c \in seeds :
              \/ /\ G2(n) = G2(c) /\ Abs(G1(n) - G1(c)) = 1
                 /\ EDGE < G1(n) /\ G1(n) < NX - EDGE - 1
              \/ /\ G1(n) = G1(c) /\ Abs(G2(n) - G2(c)) = 1
                 /\ EDGE < G2(n) /\ G2(n) < NP - EDGE - 1 }
\* C20 as stated: each ring expansion makes live exactly the non-live
\* 4-neighbours of the seeds that lie in the edge-free interior (the seeds
\* themselves apart)
C20_RingFillsInterior ==
    [][ /\ pc \in {"expand0", "expand"} => NewLive = RingInInterior(TB)
        /\ pc = "extr" =>
              NewLive \ Committed = RingInInterior(Committed) \ Committed ]_vars
\* C20 amended: each ring expansion makes live exactly the non-live
\* 4-neighbours of the seeds whose index along the step from the seed is
\* strictly inside the edge-free interior, and the expansions around
\* committed extrapolation targets also the non-live targets themselves
C20_RingStrictlyInside ==
    [][ /\ pc \in {"expand0", "expand"} => NewLive = RingStrictlyInside(TB)
        /\ pc = "extr" =>
              NewLive = { g \in Committed : ~TAMask[g] }
                           \cup RingStrictlyInside(Committed) ]_vars
\* an expansion is about to run from a seed that has a non-live neighbour in
\* the outermost interior row or column, and from one that has a non-live
\* neighbour strictly inside
C20_Witness ==
    /\ pc = "expand" /\ tt >= 1
    /\ RingInInterior(TB) /= RingStrictlyInside(TB)
    /\ RingStrictlyInside(TB) /= {}

\* the positions at which an expansion writes the mask
ExpansionPos == {"expand0", "extr", "expand"}
\* C21: the mask changes only in the initial truncation, in the expansions
\* (absent -> live only) and in the prune (live -> absent only); the RK4
\* stages and the normalization leave it unchanged, and when the prune runs
\* every non-live cell has PF = 0, so that the prune makes no cell live
C21_MaskFrame ==
    [][ /\ TAMask' /= TAMask => pc \in {"truncate", "prune"} \cup ExpansionPos
        /\ pc \in ExpansionPos => \A c \in Cells : TAMask[c] => TAMask'[c]
        /\ pc = "prune" =>
              \A c \in Cells : ~TAMask[c] => (PF[c] = 0 /\ ~TAMask'[c]) ]_vars
\* a prune has just removed a cell that an RK4 pass and a normalization had
\* written, in a step that follows an end-of-step expansion
C21_Witness ==
    /\ pc = "tabox" /\ tt >= 1
    /\ \E c \in Cells : ~TAMask[c] /\ fNe(FF[c], 0) /\ PF[c] = 0

\* the rows in which the current pass of the while loop committed a target
GainedRows == { G1(g) : g \in Committed }
\* the moments of row i computed from the current F on the live cells of
\* the box, as lines 1242-1310 compute them
FreshMoments(i) ==
    MomentsRow({ c \in RowCells(i) : InBox(c) /\ TAMask[c] }, F,
               isLinearizedCollision, isIsothermal)
\* C22: when the RK4 update of an extrapolation pass starts, the first pass
\* of the step or a later one, the stored density, drift velocity and local
\* temperature of every row that gained a cell are the moments of the
\* current F
C22_MomentsFresh ==
    pc \in {"c1k1", "xk1"} =>
        \A i \in GainedRows :
            /\ Density[i] = FreshMoments(i).density
            /\ Velocity[i] = FreshMoments(i).velocity
            /\ Temperature[i] = FreshMoments(i).temp

\* C23: the seed set TBL with which a pass of the while loop ends is
\* disjoint from TBL_P, the union of the seed sets of the passes of the step
\* so far: no cell is a seed in two passes of one step
C23_RingHandledOnce ==
    [][ pc = "rebuild" => TBL' \cap TBL_P = {} ]_vars

\* C24: in a truncated run, between two steps, Feq_loc is 0 on every cell
\* that is not live, a cell that a prune removed included
C24_FeqZeroOffMask ==
    StepBoundary => \A c \in Cells : ~TAMask[c] => Feq_loc[c] = 0

\* C25: when the prune of a step leaves no live cell (the rebuilt box has
\* ta_size = 0), TB is empty after the boundary rebuild and the ring
\* expansion makes no cell live; an empty mask stays empty from then on
C25_EmptyStaysEmpty ==
    [][ /\ (pc = "expand" /\ ta_size = 0) => TB = {}
        /\ (InTimeLoop /\ ~isFullGrid /\ Live = {}) => (Live = {})' ]_vars

\* the increment of the previous stage that the stage about to run reads
\* (the first stage reads none)
PrevStageK ==
    IF pc \in {"c1k2", "xk2", "c2k2"} THEN KK1
    ELSE IF pc \in {"c1k3", "xk3", "c2k3"} THEN KK2
    ELSE IF pc \in {"c1k4", "xk4", "c2k4"} THEN KK3
    ELSE ZeroField
\* C26: in a truncated run, when a stage is about to run, every non-live
\* 4-neighbour of a cell of the stage's region has F = 0 and a previous-stage
\* increment of 0
C26_NonLiveNeighboursZero ==
    (~isFullGrid /\ RKStage) =>
        \A c \in RKRegion(RKCase) :
            \A n \in {c + W1, c - W1, c + 1, c - 1} :
                ~TAMask[n] => (F[n] = 0 /\ PrevStageK[n] = 0)

\* C27: when ExBD is about to be built, every mask cell of the diamond of
\* Manhattan distance 1..4 around a committed target has its row in
\* [0, N_x) and its column in [0, N_p)
C27_DiamondInGrid ==
    (pc = "extr" /\ ~isFirstExtrp /\ ExFF /= {}) =>
        \A g \in Committed : \A r \in DiamondReads(g) : InGrid(r)

\* the normalization is about to run, or has computed the norm
AtNormalization ==
    \/ pc \in {"norm", "apply"}
    \/ pc = "while" /\ ~WhileCond /\ isExtrapolate
\* C28: when the normalization of a step runs, exactly one RK4 pass over the
\* whole update region has been completed in the step, and FF of every cell
\* of the update region was written by an RK4 pass of the step
C28_OnePassFreshFF ==
    AtNormalization =>
        /\ rkLog.whole = 1
        /\ UpdateRegion \subseteq rkLog.written
\* the normalization of a step whose last pass of the while loop, not the
\* first, committed targets and ran its RK4 pass over ExBD, live cells of
\* the diamond included
C28_Witness ==
    /\ AtNormalization /\ pc /= "apply" /\ ~isFullGrid
    /\ passes >= 2 /\ Committed /= {}
    /\ \E c \in ExBD \ Committed : TAMask[c] /\ c \in rkLog.written

\* C29: every cell of TBL, whether the frontier scan or a rebuild inside the
\* loop put it there, and every extrapolation target, is strictly interior:
\* E < i < N_x-E-1 and E < j < N_p-E-1
C29_SeedsStrictlyInterior ==
    /\ \A c \in TBL \cup TBL_P : StrictInterior(c)
    /\ \A g \in ExFF : StrictInterior(g)
    /\ (pc = "while" /\ WhileCond) =>
          \A g \in ExTargets(F, TBL) : StrictInterior(g)
\* a rebuild inside the loop has left a seed in the outermost strictly
\* interior row or column, from a target of the pass
C29_Witness ==
    /\ pc = "while" /\ Excount >= 1 /\ TBL /= {} /\ TBL \subseteq Committed
    /\ \E c \in TBL : \/ G1(c) \in {EDGE + 1, NX - EDGE - 2}
                      \/ G2(c) \in {EDGE + 1, NP - EDGE - 2}

\* C30: a pass of the extrapolation commits to each target the value
\* computed from F as it was before the pass, and writes no other cell of F
C30_CommitFromPrePassF ==
    [][ (pc = "while" /\ pc' = "extr") =>
          /\ \A g \in Committed' : F'[g] = ExtrapVal(F, g, ExReduce).val
          /\ \A c \in Cells \ Committed' : F'[c] = F[c] ]_vars
\* a pass has committed two targets, one of which is among the cells the
\* extrapolation of the other reads
C30_Witness ==
    /\ pc = "extr"
    /\ \E g \in Committed : \E h \in Committed \ {g} :
          <<G1(h), G2(h)>> \in ExReads(g) /\ fNe(F[h], 0)

====
